---- MODULE Spec2Model ----
(***************************************************************************)
(* Model of the legal-summarizer backend (backend/main.py): text          *)
(* normalisation, date parsing and classification, citation extraction,   *)
(* timeline synthesis, case-status heuristic, the structured summary and  *)
(* the /upload/ handler.                                                   *)
(*                                                                         *)
(* A Python string is modelled as a sequence of atoms.  An atom is either  *)
(* one character that the code distinguishes (a white-space character, a   *)
(* dash, a comma, ...), a run of letters (a word) or a run of digits (a    *)
(* number, with its value and its number of digits).                       *)
(***************************************************************************)
EXTENDS Integers, Sequences, FiniteSets, TLC

(***************************************************************************)
(* Bounds of the model.                                                    *)
(***************************************************************************)
MaxLen == 4

MaxFrags == 2

MaxNarr == 3

MaxFiles == 2

MaxTicks == 1

(***************************************************************************)
(* The(S) is the element of a one-element set.  The({F(x) : x \in {e}}) is *)
(* F(e) with e evaluated once, the way Python evaluates an assignment      *)
(* x = e before the statements that use x.                                 *)
(***************************************************************************)
The(S) == CHOOSE x \in S : TRUE

(***************************************************************************)
(* Atoms.                                                                  *)
(***************************************************************************)
Ch(c) == [k |-> "c", s |-> c, v |-> 0, w |-> 0]

W(s) == [k |-> "w", s |-> s, v |-> 0, w |-> 0]

N(v, w) == [k |-> "n", s |-> "", v |-> v, w |-> w]

SP == Ch("SP")

TAB == Ch("TAB")

NL == Ch("NL")

FF == Ch("FF")

NBSP == Ch("NBSP")

EN == Ch("EN")

EM == Ch("EM")

FIG == Ch("FIG")

HY == Ch("-")

COMMA == Ch(",")

SLASH == Ch("/")

DOT == Ch(".")

LP == Ch("(")

RP == Ch(")")

\* the characters of Python's str.isspace and of the regex class \s
Spaces == {SP, TAB, NL, FF, NBSP}

IsSpace(a) == a \in Spaces

IsAlnum(a) == a.k \in {"w", "n"}

Range(q) == {q[i] : i \in 1..Len(q)}

RECURSIVE Concat(_)
Concat(ss) == IF ss = <<>> THEN <<>> ELSE Head(ss) \o Concat(Tail(ss))

\* text.replace(old, new) for single characters
ReplaceCh(t, old, new) == [i \in 1..Len(t) |-> IF t[i] = old THEN new ELSE t[i]]

\* index of the last atom of the run of atoms of S that starts at i (i - 1
\* when t[i] is not in S)
RECURSIVE RunEnd(_, _, _)
RunEnd(t, i, S) ==
    IF i <= Len(t) /\ t[i] \in S THEN RunEnd(t, i + 1, S) ELSE i - 1

\* the position after \s* started at i
SkipWs(t, i) == RunEnd(t, i, Spaces) + 1

\* lines 143-146: the four replace calls
ReplaceDashes(t) ==
    The({ReplaceCh(c, FIG, HY) :
         c \in {ReplaceCh(b, EM, HY) :
                b \in {ReplaceCh(a, EN, HY) : a \in {ReplaceCh(t, NBSP, SP)}}}})

\* re.sub(r"[ \t]+", " ", t) (line 148)
RECURSIVE CollapseBlanks(_, _)
CollapseBlanks(t, i) ==
    IF i > Len(t) THEN <<>>
    ELSE IF t[i] \in {SP, TAB}
         THEN The({<<SP>> \o CollapseBlanks(t, e + 1) : e \in {RunEnd(t, i, {SP, TAB})}})
         ELSE <<t[i]>> \o CollapseBlanks(t, i + 1)

\* re.sub(r"\s*\n\s*", "\n", t) (line 149): at i the greedy \s* takes the
\* white-space run [i..e], backs off to the last line break in it, and the
\* trailing \s* takes the rest of the run again; without a line break in the
\* run there is no match at i.
RECURSIVE TrimLineBreaks(_, _)
TrimLineBreaks(t, i) ==
    IF i > Len(t) THEN <<>>
    ELSE The({IF \E j \in i..e : t[j] = NL
              THEN <<NL>> \o TrimLineBreaks(t, e + 1)
              ELSE <<t[i]>> \o TrimLineBreaks(t, i + 1) :
              e \in {RunEnd(t, i, Spaces)}})

\* str.strip()
Strip(t) ==
    LET K == {j \in 1..Len(t) : ~IsSpace(t[j])}
    IN IF K = {} THEN <<>>
       ELSE SubSeq(t, CHOOSE j \in K : \A z \in K : j <= z,
                      CHOOSE j \in K : \A z \in K : z <= j)

\* _normalize_text with the replace calls of lines 143-146 made last
_normalize_text_replace_last(t) ==
    The({ReplaceDashes(d) :
         d \in {Strip(c) :
                c \in {TrimLineBreaks(b, 1) : b \in {CollapseBlanks(t, 1)}}}})

\* lines 139-150
_normalize_text(t) ==
    The({Strip(c) :
         c \in {TrimLineBreaks(b, 1) :
                b \in {CollapseBlanks(a, 1) : a \in {ReplaceDashes(t)}}}})

(***************************************************************************)
(* Case folding and month names (str.lower, re.IGNORECASE, %B and %b).     *)
(***************************************************************************)
MonthFull ==
    <<"January", "February", "March", "April", "May", "June", "July",
      "August", "September", "October", "November", "December">>

MonthFullLower ==
    <<"january", "february", "march", "april", "may", "june", "july",
      "august", "september", "october", "november", "december">>

MonthAbbrLower ==
    <<"jan", "feb", "mar", "apr", "may", "jun", "jul", "aug", "sep", "oct",
      "nov", "dec">>

\* str.lower() on the words of the model's vocabulary that are not lower case
UpperWords ==
    {<<"Feb", "feb">>, <<"Sept", "sept">>, <<"FEBRUARY", "february">>,
     <<"Section", "section">>, <<"SECTION", "section">>, <<"Sec", "sec">>,
     <<"IPC", "ipc">>, <<"NI", "ni">>, <<"Act", "act">>, <<"A", "a">>,
     <<"Evidence", "evidence">>, <<"Penal", "penal">>, <<"Code", "code">>,
     <<"Judgment", "judgment">>, <<"Final", "final">>, <<"Order", "order">>,
     <<"Dismissed", "dismissed">>, <<"Summary", "summary">>}
     \cup {<<MonthFull[m], MonthFullLower[m]>> : m \in 1..12}

LowerWord(s) ==
    IF \E p \in UpperWords : p[1] = s
    THEN (CHOOSE p \in UpperWords : p[1] = s)[2]
    ELSE s

LowerAtom(a) == IF a.k = "w" THEN W(LowerWord(a.s)) ELSE a

\* str.lower()
Lower(t) == [i \in 1..Len(t) |-> LowerAtom(t[i])]

\* the words the MONTHS pattern accepts (line 213), under re.IGNORECASE
MONTHS ==
    {MonthFullLower[m] : m \in 1..12} \cup {MonthAbbrLower[m] : m \in 1..12}
        \cup {"sept"}

IsMonthWord(a) == a.k = "w" /\ LowerWord(a.s) \in MONTHS

(***************************************************************************)
(* Calendar dates (datetime.date).                                         *)
(***************************************************************************)
Date(y, m, d) == [y |-> y, m |-> m, d |-> d]

\* Python's None where a date is expected
NoDate == Date(0, 0, 0)

IsLeap(y) == (y % 4 = 0 /\ y % 100 # 0) \/ y % 400 = 0

DaysInMonth(y, m) ==
    IF m = 2 THEN (IF IsLeap(y) THEN 29 ELSE 28)
    ELSE IF m \in {4, 6, 9, 11} THEN 30 ELSE 31

\* datetime.date(y, m, d) succeeds
ValidDate(y, m, d) ==
    /\ y \in 1..9999
    /\ m \in 1..12
    /\ d \in 1..DaysInMonth(y, m)

\* date.__lt__ / date.__ge__
DateLT(a, b) ==
    \/ a.y < b.y
    \/ a.y = b.y /\ a.m < b.m
    \/ a.y = b.y /\ a.m = b.m /\ a.d < b.d

DateGE(a, b) == ~DateLT(a, b)

\* the clock passing midnight
NextDay(t) ==
    IF t.d < DaysInMonth(t.y, t.m) THEN [t EXCEPT !.d = t.d + 1]
    ELSE IF t.m < 12 THEN Date(t.y, t.m + 1, 1)
    ELSE Date(t.y + 1, 1, 1)

(***************************************************************************)
(* datetime.strptime: one format is a sequence of items; "ws" is white     *)
(* space of the format (the regex \s+), "d" "m" "Y" "B" "b" are the        *)
(* directives and every other item is a literal character.                 *)
(***************************************************************************)
DirOk(item, a) ==
    CASE item = "d" -> a.k = "n" /\ a.w \in {1, 2} /\ a.v \in 1..31
      [] item = "m" -> a.k = "n" /\ a.w \in {1, 2} /\ a.v \in 1..12
      [] item = "Y" -> a.k = "n" /\ a.w = 4
      [] item = "B" -> a.k = "w" /\ \E m \in 1..12 : MonthFullLower[m] = LowerWord(a.s)
      [] item = "b" -> a.k = "w" /\ \E m \in 1..12 : MonthAbbrLower[m] = LowerWord(a.s)
      [] OTHER -> a = Ch(item)

DirMonth(item, a) ==
    CASE item = "m" -> a.v
      [] item = "B" -> CHOOSE m \in 1..12 : MonthFullLower[m] = LowerWord(a.s)
      [] item = "b" -> CHOOSE m \in 1..12 : MonthAbbrLower[m] = LowerWord(a.s)

\* the fields found by matching the items fmt[j..] on the atoms ds[i..], the
\* whole string to be consumed; ok = FALSE when the string does not match
RECURSIVE StrpMatch(_, _, _, _, _)
StrpMatch(ds, i, fmt, j, acc) ==
    IF j > Len(fmt) THEN [acc EXCEPT !.ok = (i > Len(ds))]
    ELSE IF i > Len(ds) THEN [acc EXCEPT !.ok = FALSE]
    ELSE IF fmt[j] = "ws"
         THEN IF IsSpace(ds[i])
              THEN The({StrpMatch(ds, i2, fmt, j + 1, acc) : i2 \in {SkipWs(ds, i)}})
              ELSE [acc EXCEPT !.ok = FALSE]
    ELSE IF ~DirOk(fmt[j], ds[i]) THEN [acc EXCEPT !.ok = FALSE]
    ELSE The({StrpMatch(ds, i + 1, fmt, j + 1, acc2) :
              acc2 \in {CASE fmt[j] = "d" -> [acc EXCEPT !.d = ds[i].v]
                          [] fmt[j] = "Y" -> [acc EXCEPT !.y = ds[i].v]
                          [] fmt[j] \in {"m", "B", "b"} ->
                                [acc EXCEPT !.m = DirMonth(fmt[j], ds[i])]
                          [] OTHER -> acc}})

\* datetime.strptime(ds, fmt).date(), NoDate for ValueError; a missing day
\* defaults to 1
Strptime(ds, fmt) ==
    The({IF r.ok /\ ValidDate(r.y, r.m, r.d) THEN Date(r.y, r.m, r.d) ELSE NoDate :
         r \in {StrpMatch(ds, 1, fmt, 1, [ok |-> TRUE, y |-> 1900, m |-> 1, d |-> 1])}})

\* lines 160-168
fmts ==
    << <<"d", "ws", "B", "ws", "Y">>, <<"B", "ws", "d", "ws", "Y">>,
       <<"d", "ws", "b", "ws", "Y">>, <<"b", "ws", "d", "ws", "Y">>,
       <<"B", "ws", "Y">>, <<"b", "ws", "Y">>,
       <<"Y", "-", "m", "-", "d">>,
       <<"d", "/", "m", "/", "Y">>, <<"m", "/", "d", "/", "Y">>,
       <<"d", "-", "m", "-", "Y">>, <<"m", "-", "d", "-", "Y">>,
       <<"d", ".", "m", ".", "Y">>, <<"m", ".", "d", ".", "Y">> >>

\* line 159: ds.replace(",", " ").strip()
CleanFragment(ds) == The({Strip(b) : b \in {ReplaceCh(ds, COMMA, SP)}})

\* FirstParse with 1970-01-01 in place of None when no format parses
RECURSIVE FirstParseEpoch(_, _)
FirstParseEpoch(ds, j) ==
    IF j > Len(fmts) THEN Date(1970, 1, 1)
    ELSE The({IF r # NoDate THEN r ELSE FirstParseEpoch(ds, j + 1) :
              r \in {Strptime(ds, fmts[j])}})

\* what the loop of lines 169-173 returns for the formats from the j-th on,
\* and line 174 when none of them parses
RECURSIVE FirstParse(_, _)
FirstParse(ds, j) ==
    IF j > Len(fmts) THEN NoDate
    ELSE The({IF r # NoDate THEN r ELSE FirstParse(ds, j + 1) :
              r \in {Strptime(ds, fmts[j])}})

\* lines 156-174: the date, or NoDate for None
_parse_one_date(ds) == The({FirstParse(c, 1) : c \in {CleanFragment(ds)}})

\* _expand_range giving every day from d1 to d2
_expand_range_days(mo, d1, d2, year) ==
    The({SelectSeq(q, LAMBDA d : d # NoDate) :
         q \in {[k \in 1..(d2.v - d1.v + 1) |->
                   _parse_one_date(<<mo, SP, N(d1.v + k - 1, 2), SP, year>>)]}})

\* lines 177-191
_expand_range(mo, d1, d2, year) ==
    The({(IF d_left # NoDate THEN <<d_left>> ELSE <<>>)
            \o (IF d_right # NoDate THEN <<d_right>> ELSE <<>>) :
         d_left \in {_parse_one_date(<<mo, SP, d1, SP, year>>)},
         d_right \in {_parse_one_date(<<mo, SP, d2, SP, year>>)}})

(***************************************************************************)
(* The combined date pattern of extract_and_classify_dates (lines          *)
(* 213-231).  Each alternative is tried at position i of the normalised    *)
(* text and gives the index of the last atom it matches, 0 for no match.   *)
(***************************************************************************)
\* \b before position i / after position j
BoundaryBefore(t, i) == i = 1 \/ ~IsAlnum(t[i - 1])

BoundaryAfter(t, j) == j = Len(t) \/ ~IsAlnum(t[j + 1])

\* \d{a,b} taking the whole run of digits at i
IsNum(t, i, widths) == i <= Len(t) /\ t[i].k = "n" /\ t[i].w \in widths

IsCh(t, i, S) == i <= Len(t) /\ t[i] \in S

NoGroups == [e |-> 0, mo |-> SP, d1 |-> SP, d2 |-> SP, yr |-> SP]

\* 1) \b(MONTHS)\s+(\d{1,2})\s*[EN-]\s*(\d{1,2}),\s*(\d{4})\b  (line 216)
RngGroups(t, i) ==
    LET p1 == SkipWs(t, i + 1)
        p2 == SkipWs(t, p1 + 1)
        p3 == SkipWs(t, p2 + 1)
        p5 == SkipWs(t, p3 + 2)
    IN IF /\ IsMonthWord(t[i]) /\ BoundaryBefore(t, i)
          /\ p1 > i + 1 /\ IsNum(t, p1, {1, 2})
          /\ IsCh(t, p2, {EN, HY})
          /\ IsNum(t, p3, {1, 2})
          /\ IsCh(t, p3 + 1, {COMMA})
          /\ IsNum(t, p5, {4}) /\ BoundaryAfter(t, p5)
       THEN [e |-> p5, mo |-> t[i], d1 |-> t[p1], d2 |-> t[p3], yr |-> t[p5]]
       ELSE NoGroups

\* 2) \b\d{1,2}\s+MONTHS\s+\d{4}\b  (line 219)
MatchFull1(t, i) ==
    LET p1 == SkipWs(t, i + 1)
        p2 == SkipWs(t, p1 + 1)
    IN IF /\ IsNum(t, i, {1, 2}) /\ BoundaryBefore(t, i)
          /\ p1 > i + 1 /\ p1 <= Len(t) /\ IsMonthWord(t[p1])
          /\ p2 > p1 + 1 /\ IsNum(t, p2, {4}) /\ BoundaryAfter(t, p2)
       THEN p2 ELSE 0

\*    \bMONTHS\s+\d{1,2},\s*\d{4}\b  (line 220)
MatchFull2(t, i) ==
    LET p1 == SkipWs(t, i + 1)
        p2 == SkipWs(t, p1 + 2)
    IN IF /\ IsMonthWord(t[i]) /\ BoundaryBefore(t, i)
          /\ p1 > i + 1 /\ IsNum(t, p1, {1, 2})
          /\ IsCh(t, p1 + 1, {COMMA})
          /\ IsNum(t, p2, {4}) /\ BoundaryAfter(t, p2)
       THEN p2 ELSE 0

\* 3) \bMONTHS\s+\d{4}\b  (line 223)
MatchMy(t, i) ==
    LET p1 == SkipWs(t, i + 1)
    IN IF /\ IsMonthWord(t[i]) /\ BoundaryBefore(t, i)
          /\ p1 > i + 1 /\ IsNum(t, p1, {4}) /\ BoundaryAfter(t, p1)
       THEN p1 ELSE 0

\* 4) \b\d{4}-\d{2}-\d{2}\b  (line 226)
MatchIso(t, i) ==
    IF /\ IsNum(t, i, {4}) /\ BoundaryBefore(t, i)
       /\ IsCh(t, i + 1, {HY}) /\ IsNum(t, i + 2, {2})
       /\ IsCh(t, i + 3, {HY}) /\ IsNum(t, i + 4, {2}) /\ BoundaryAfter(t, i + 4)
    THEN i + 4 ELSE 0

\*    \b\d{1,2}[\/.-]\d{1,2}[\/.-]\d{2,4}\b  (line 227)
MatchNum(t, i) ==
    IF /\ IsNum(t, i, {1, 2}) /\ BoundaryBefore(t, i)
       /\ IsCh(t, i + 1, {SLASH, DOT, HY}) /\ IsNum(t, i + 2, {1, 2})
       /\ IsCh(t, i + 3, {SLASH, DOT, HY}) /\ IsNum(t, i + 4, {2, 3, 4})
       /\ BoundaryAfter(t, i + 4)
    THEN i + 4 ELSE 0

\* the end of the first of the single-date alternatives that matches at i
MatchSingle(t, i) ==
    The({IF e1 > 0 THEN e1 ELSE IF e2 > 0 THEN e2 ELSE IF e3 > 0 THEN e3
         ELSE IF e4 > 0 THEN e4 ELSE MatchNum(t, i) :
         e1 \in {MatchFull1(t, i)}, e2 \in {MatchFull2(t, i)},
         e3 \in {MatchMy(t, i)}, e4 \in {MatchIso(t, i)}})

\* the match of the whole pattern (line 229) at i: the range alternative
\* comes first
MatchAt(t, i) ==
    The({IF g.e > 0 THEN g @@ [rng |-> TRUE, s |-> i]
         ELSE [g EXCEPT !.e = MatchSingle(t, i)] @@ [rng |-> FALSE, s |-> i] :
         g \in {RngGroups(t, i)}})

\* list(re.finditer(pattern, clean)): leftmost, non-overlapping matches
RECURSIVE FindDates(_, _)
FindDates(t, i) ==
    IF i > Len(t) THEN <<>>
    ELSE The({IF m.e > 0 THEN <<m>> \o FindDates(t, m.e + 1)
              ELSE FindDates(t, i + 1) :
              m \in {MatchAt(t, i)}})

\* re.sub(r'(\d+)(st|nd|rd|th)', r'\1', raw) (line 247): an ordinal suffix
\* that follows a number directly is removed
StripOrdinals(raw) ==
    SelectSeq([i \in 1..Len(raw) |->
                 IF /\ i > 1 /\ raw[i - 1].k = "n" /\ raw[i].k = "w"
                    /\ LowerWord(raw[i].s) \in {"st", "nd", "rd", "th"}
                 THEN Ch("") ELSE raw[i]],
              LAMBDA a : a # Ch(""))

\* what a match adds to found_dates when its fragment parses to dt (lines
\* 249-251)
KeepParsed(dt) == IF dt # NoDate THEN <<dt>> ELSE <<>>

\* the dates one match contributes to found_dates (lines 235-251)
MatchDates(t, m) ==
    IF m.rng THEN _expand_range(m.mo, m.d1, m.d2, m.yr)
    ELSE The({KeepParsed(_parse_one_date(raw)) :
              raw \in {ReplaceCh(r, COMMA, SP) :
                       r \in {StripOrdinals(SubSeq(t, m.s, m.e))}}})

FoundDates(t, ms) ==
    The({Concat(q) : q \in {[k \in 1..Len(ms) |-> MatchDates(t, ms[k])]}})

\* sorted(S) for a set of dates
RECURSIVE SortDates(_)
SortDates(S) ==
    IF S = {} THEN <<>>
    ELSE The({<<lo>> \o The({SortDates(R) : R \in {S \ {lo}}}) :
              lo \in {x \in S : \A z \in S : ~DateLT(z, x)}})

\* d.strftime("%d %B %Y"); pad is whether the C library pads %Y to 4 digits
Digits(n) == IF n < 10 THEN 1 ELSE IF n < 100 THEN 2 ELSE IF n < 1000 THEN 3 ELSE 4

Strftime(d, pad) ==
    <<N(d.d, 2), SP, W(MonthFull[d.m]), SP, N(d.y, IF pad THEN 4 ELSE Digits(d.y))>>

Pretty(ds, pad) == [i \in 1..Len(ds) |-> Strftime(ds[i], pad)]

\* line 258 with > for >=
IsUpcomingStrict(d, today) == DateLT(today, d)

\* lines 257 and 258
IsPast(d, today) == DateLT(d, today)

IsUpcoming(d, today) == DateGE(d, today)

\* lines 257-269
Classify(unique_sorted, today, pad) ==
    The({[all_unique_sorted |-> Pretty(unique_sorted, pad),
          past |-> [count |-> Len(past), list |-> Pretty(past, pad)],
          upcoming |-> [count |-> Len(upcoming), list |-> Pretty(upcoming, pad)],
          total_unique |-> Len(unique_sorted)] :
         past \in {SelectSeq(unique_sorted, LAMBDA d : IsPast(d, today))},
         upcoming \in {SelectSeq(unique_sorted, LAMBDA d : IsUpcoming(d, today))}})

\* found_dates of lines 211-251 for the text t
FoundIn(t) ==
    The({The({FoundDates(cl, ms) : ms \in {FindDates(cl, 1)}}) :
         cl \in {_normalize_text(t)}})

\* extract_and_classify_dates(text) when datetime.now().date() is today
extract_and_classify_dates(t, today, pad) ==
    The({Classify(us, today, pad) :
         us \in {SortDates(S) : S \in {Range(f) : f \in {FoundIn(t)}}}})

(***************************************************************************)
(* extract_sections_invoked (lines 275-337).  The words of the model's     *)
(* vocabulary contain the keywords of the two patterns ("section", "sec",  *)
(* "u/s", "act", "code", the act names) only as whole words.               *)
(***************************************************************************)
IsWord(t, i, S) == i <= Len(t) /\ t[i].k = "w" /\ LowerWord(t[i].s) \in S

\* ACTS_A (line 286) at position i: the index of its last atom, 0 for no match
MatchAct(t, i) ==
    LET p1 == SkipWs(t, i + 1)
        p2 == SkipWs(t, p1 + 1)
    IN IF IsWord(t, i, {"ipc", "crpc", "cpc", "pmla", "ndps", "pocso"}) THEN i
       ELSE IF /\ IsWord(t, i, {"ni", "it", "evidence", "arms", "pc", "companies", "contract"})
               /\ IsWord(t, p1, {"act"})
            THEN p1
       ELSE IF IsWord(t, i, {"motor"}) /\ IsWord(t, p1, {"vehicles"}) /\ IsWord(t, p2, {"act"})
            THEN p2
       ELSE 0

\* (?:section|sec\.?)\s* at j: the position after it, 0 for no match
KeywordA(t, j) ==
    IF IsWord(t, j, {"section"}) THEN SkipWs(t, j + 1)
    ELSE IF IsWord(t, j, {"sec"})
         THEN (IF IsCh(t, j + 1, {DOT}) THEN SkipWs(t, j + 2) ELSE SkipWs(t, j + 1))
    ELSE 0

\* the position after the keyword prefix of patt_a (line 289) tried at i,
\* 0 when the prefix does not match at i
PrefixA(t, i) ==
    IF IsWord(t, i, {"u"}) /\ IsCh(t, i + 1, {SLASH}) /\ IsWord(t, i + 2, {"s"})
    THEN SkipWs(t, i + 3)
    ELSE The({IF IsWord(t, i, {"under"}) /\ u > i + 1 /\ KeywordA(t, u) > 0
              THEN KeywordA(t, u)
              ELSE KeywordA(t, i) :
              u \in {SkipWs(t, i + 1)}})

\* the characters, besides letters and digits, of [0-9A-Za-z()\-/] (line 290)
\* and of [0-9A-Za-z()-] (line 300)
NumClass == {LP, RP, HY, SLASH}

CodeClass == {LP, RP, HY}

RECURSIVE ClassEnd(_, _, _)
ClassEnd(t, i, S) ==
    IF i <= Len(t) /\ (IsAlnum(t[i]) \/ t[i] \in S) THEN ClassEnd(t, i + 1, S) ELSE i - 1

\* (?:\s*(?:of\s+the\s+)?)\s* at q1, already behind the white space: the
\* position after it
OfThe(t, q1) ==
    The({IF IsWord(t, q1, {"of"}) /\ a > q1 + 1 /\ IsWord(t, a, {"the"})
         THEN The({IF b > a + 1 THEN b ELSE q1 : b \in {SkipWs(t, a + 1)}})
         ELSE q1 :
         a \in {SkipWs(t, q1 + 1)}})

NoMatchA == [e |-> 0, nums |-> <<>>, act |-> <<>>]

\* patt_a (lines 287-294) at i: e is the index of the last atom matched (0:
\* no match), nums and act the two named groups
MatchA(t, i) ==
    The({IF p = 0 THEN NoMatchA
         ELSE The({IF ne < p THEN NoMatchA
                   ELSE The({The({[e |-> IF ae > 0 THEN ae ELSE q2 - 1,
                                   nums |-> SubSeq(t, p, ne),
                                   act |-> IF ae > 0 THEN SubSeq(t, q2, ae) ELSE <<>>] :
                                  ae \in {IF q2 <= Len(t) THEN MatchAct(t, q2) ELSE 0}}) :
                             q2 \in {OfThe(t, q1) : q1 \in {SkipWs(t, ne + 1)}}}) :
                   ne \in {ClassEnd(t, p, NumClass)}}) :
         p \in {PrefixA(t, i)}})

\* re.split(r'[\/,]|(?:\s*-\s*)|(?:\s+and\s+)', nums) (line 310): nums holds
\* no white space, so it is split at "/", "," and "-"; the parts from
\* position i on, cur being the part begun
RECURSIVE SplitNums(_, _, _)
SplitNums(nums, i, cur) ==
    IF i > Len(nums) THEN <<cur>>
    ELSE IF nums[i] \in {SLASH, COMMA, HY}
         THEN <<cur>> \o SplitNums(nums, i + 1, <<>>)
         ELSE The({SplitNums(nums, i + 1, c) : c \in {Append(cur, nums[i])}})

\* re.match(r'^[0-9]+[A-Za-z()\-]*$', p) for a non-empty part (lines 313-316)
PartOk(p) ==
    /\ p # <<>>
    /\ p[1].k = "n"
    /\ \A j \in 2..Len(p) : p[j].k = "w" \/ p[j] \in {LP, RP, HY}

\* lines 311-318 for the parts of one match
LabelsOfParts(parts, act) ==
    The({Concat(q) :
         q \in {[k \in 1..Len(parts) |->
                  IF PartOk(parts[k])
                  THEN << <<W("Section"), SP>> \o parts[k]
                            \o (IF act # <<>> THEN <<SP>> \o act ELSE <<>>) >>
                  ELSE <<>>]}})

\* Collect A) (lines 307-318)
RECURSIVE CollectA(_, _)
CollectA(t, i) ==
    IF i > Len(t) THEN <<>>
    ELSE The({IF m.e > 0
              THEN The({LabelsOfParts(parts, m.act) : parts \in {SplitNums(m.nums, 1, <<>>)}})
                     \o CollectA(t, m.e + 1)
              ELSE CollectA(t, i + 1) :
              m \in {MatchA(t, i)}})

IsActWord(a) == a.k = "w" /\ LowerWord(a.s) \in {"act", "code"}

\* whether the title of patt_b can end at k: "Code"/"Act", white space and a
\* reference token follow
TitleEnd(t, k) ==
    /\ IsActWord(t[k])
    /\ The({p > k + 1 /\ ClassEnd(t, p, CodeClass) >= p : p \in {SkipWs(t, k + 1)}})

\* patt_b at i (lines 297-302): the title runs over letters and blanks from i
\* and, being greedy, ends at the last "Code"/"Act" of the run that white
\* space and a reference token follow; k = 0 for no match
MatchB(t, i) ==
    IF t[i].k # "w" THEN [k |-> 0, e |-> 0]
    ELSE The({IF K = {} THEN [k |-> 0, e |-> 0]
              ELSE The({[k |-> k, e |-> ClassEnd(t, SkipWs(t, k + 1), CodeClass)] :
                        k \in {x \in K : \A z \in K : z <= x}}) :
              K \in {{k \in (i + 1)..r : TitleEnd(t, k)} :
                     r \in {RunEnd(t, i, {a \in Range(t) : a.k = "w" \/ a = SP})}}})

\* Collect B) (lines 321-327)
RECURSIVE CollectB(_, _)
CollectB(t, i) ==
    IF i > Len(t) THEN <<>>
    ELSE The({IF m.k > 0
              THEN << SubSeq(t, i, m.k) \o <<SP>> \o SubSeq(t, SkipWs(t, m.k + 1), m.e) >>
                      \o CollectB(t, m.e + 1)
              ELSE CollectB(t, i + 1) :
              m \in {MatchB(t, i)}})

\* line 332 without lower()
DedupKeyExact(label) == label

\* the key under which a label is remembered as seen (line 332)
DedupKey(label) == Lower(label)

\* Deduplicate case-insensitively (lines 330-335): the labels kept among
\* found[i..], seen being the keys of the labels before
RECURSIVE Dedup(_, _, _)
Dedup(found, i, seen) ==
    IF i > Len(found) THEN <<>>
    ELSE The({IF key \notin seen
              THEN <<found[i]>> \o The({Dedup(found, i + 1, s2) : s2 \in {seen \cup {key}}})
              ELSE Dedup(found, i + 1, seen) :
              key \in {DedupKey(found[i])}})

\* the list `found` of line 304 when the two collections are done
FoundSections(t) ==
    The({CollectA(cl, 1) \o CollectB(cl, 1) : cl \in {_normalize_text(t)}})

\* lines 275-337
extract_sections_invoked(t) ==
    The({[list |-> dedup, count |-> Len(dedup)] :
         dedup \in {Dedup(found, 1, {}) : found \in {FoundSections(t)}}})

(***************************************************************************)
(* generate_case_timeline (lines 343-399).                                 *)
(***************************************************************************)
\* number of characters of an atom, and of the atoms before position j
CharLen(a) == IF a.k = "n" THEN a.w ELSE IF a.k = "w" THEN Len(a.s) ELSE 1

RECURSIVE Offset(_, _)
Offset(t, j) == IF j <= 1 THEN 0 ELSE Offset(t, j - 1) + CharLen(t[j - 1])

Max(a, b) == IF a >= b THEN a ELSE b

Min(a, b) == IF a <= b THEN a ELSE b

\* the least element of a non-empty set of numbers
Least(P) == CHOOSE j \in P : \A z \in P : j <= z

\* re.search(r'\b(\d{4})\b', dstr) (line 368): the position in dstr of the
\* first run of exactly four digits, 0 when there is none (year = None)
YearPos(dstr) ==
    The({IF P = {} THEN 0 ELSE Least(P) :
         P \in {{j \in 1..Len(dstr) :
                   IsNum(dstr, j, {4}) /\ BoundaryBefore(dstr, j) /\ BoundaryAfter(dstr, j)}}})

\* re.search(rf'\b{year}\b', clean).start() (lines 372-376), -1 when the year
\* is not found
YearIdx(cl, year) ==
    The({IF P = {} THEN -1 ELSE Offset(cl, Least(P)) :
         P \in {{j \in 1..Len(cl) :
                   cl[j] = year /\ BoundaryBefore(cl, j) /\ BoundaryAfter(cl, j)}}})

\* clean[start:end] in characters: the atoms that lie in the window
Slice(cl, start, end) ==
    The({[j \in 1..Len(win) |-> win[j].a] :
         win \in {SelectSeq([j \in 1..Len(cl) |-> [a |-> cl[j], o |-> Offset(cl, j)]],
                            LAMBDA x : x.o >= start /\ x.o + CharLen(x.a) <= end)}})

\* re.sub(r'\s+', ' ', s) (line 381)
RECURSIVE CollapseSpace(_, _)
CollapseSpace(t, i) ==
    IF i > Len(t) THEN <<>>
    ELSE IF IsSpace(t[i])
         THEN The({<<SP>> \o CollapseSpace(t, p) : p \in {SkipWs(t, i)}})
         ELSE <<t[i]>> \o CollapseSpace(t, i + 1)

\* lines 366-381
EventContext(cl, dstr) ==
    The({The({Strip(c) :
              c \in {CollapseSpace(win, 1) :
                     win \in {Slice(cl,
                                    IF idx >= 0 THEN Max(0, idx - 120) ELSE 0,
                                    Min(Offset(cl, Len(cl) + 1),
                                        IF idx >= 0 THEN idx + 160 ELSE 200))}}}) :
         idx \in {IF yp > 0 THEN YearIdx(cl, dstr[yp]) ELSE -1 : yp \in {YearPos(dstr)}}})

\* lines 385-386; the status strings are written without the symbol the
\* code puts in front of them
EventStatus(dstr, now) ==
    The({IF parsed # NoDate /\ DateGE(parsed, now) THEN "Upcoming" ELSE "Completed" :
         parsed \in {_parse_one_date(dstr)}})

\* _to_date (lines 395-396)
_to_date(s) ==
    The({IF d # NoDate THEN d ELSE Date(1970, 1, 1) : d \in {_parse_one_date(s)}})

\* sorted, a list in key order, with e put behind the entries whose key is
\* not greater: one step of a stable sort
InsertEvent(sorted, e) ==
    The({The({SubSeq(sorted, 1, p - 1) \o <<e>> \o SubSeq(sorted, p, Len(sorted)) :
              p \in {IF J = {} THEN Len(sorted) + 1 ELSE Least(J)}}) :
         J \in {{j \in 1..Len(sorted) : DateLT(key, _to_date(sorted[j].date))} :
                key \in {_to_date(e.date)}}})

\* events[1..n] after events.sort(key=...) (line 398)
RECURSIVE SortEvents(_, _)
SortEvents(events, n) ==
    IF n = 0 THEN <<>>
    ELSE The({InsertEvent(s, events[n]) : s \in {SortEvents(events, n - 1)}})

\* the loop of lines 363-392 and the sort of line 398, for the dates that the
\* extraction of line 354 gave and now = datetime.now().date() of line 359
TimelineEvents(cl, all_dates, now) ==
    The({SortEvents(events, Len(events)) :
         events \in {[i \in 1..Len(all_dates) |->
                        [date |-> all_dates[i],
                         event_context |-> EventContext(cl, all_dates[i]),
                         status |-> EventStatus(all_dates[i], now)]]}})

\* generate_case_timeline(text) when the clock reads today at line 255 (called
\* from line 354) and now at line 359
generate_case_timeline(t, today, now, pad) ==
    The({The({TimelineEvents(cl, info.all_unique_sorted, now) :
              info \in {extract_and_classify_dates(cl, today, pad)}}) :
         cl \in {_normalize_text(t)}})

(***************************************************************************)
(* detect_case_status (lines 404-424).  `kw in text` is a substring test:  *)
(* a word of the text holds a keyword when it is the keyword or one of the *)
(* longer words listed here.                                               *)
(***************************************************************************)
Holds ==
    {<<"judgments", "judgment">>, <<"undelivered", "delivered">>,
     <<"reissued", "issued">>, <<"semifinal", "final">>, <<"orders", "order">>}

WordHolds(s, kw) == s = kw \/ <<s, kw>> \in Holds

\* a one-word keyword in text
In1(kw, t) == \E i \in 1..Len(t) : t[i].k = "w" /\ WordHolds(t[i].s, kw)

\* "final order" in text: a word ending in "final", one blank, a word
\* starting with "order"
InFinalOrder(t) ==
    \E i \in 1..(Len(t) - 2) :
        /\ t[i].k = "w" /\ WordHolds(t[i].s, "final")
        /\ t[i + 1] = SP
        /\ t[i + 2].k = "w" /\ WordHolds(t[i + 2].s, "order")

\* line 420
keywords_closed == {"dismissed", "acquitted", "convicted", "sentenced"}

\* metadata.get("dates", {}).get("upcoming", {}).get("count", 0) (line 416)
UpcomingCount(metadata) ==
    IF "dates" \in DOMAIN metadata THEN metadata.dates.upcoming.count ELSE 0

\* lines 410-412, 416 and 421
Rule1(t) == (In1("judgment", t) /\ In1("delivered", t)) \/ (InFinalOrder(t) /\ In1("issued", t))

Rule2(metadata) == UpcomingCount(metadata) > 0

Rule3(t) == \E k \in keywords_closed : In1(k, t)

\* detect_case_status with the upcoming-date rule tried first
detect_case_status_dates_first(summary_text, metadata) ==
    The({IF Rule2(metadata) THEN "Ongoing"
         ELSE IF Rule1(t) \/ Rule3(t) THEN "Closed"
         ELSE "Ongoing" :
         t \in {Lower(summary_text)}})

\* detect_case_status with Closed as the default of line 424
detect_case_status_default_closed(summary_text, metadata) ==
    The({IF Rule1(t) THEN "Closed"
         ELSE IF Rule2(metadata) THEN "Ongoing"
         ELSE "Closed" :
         t \in {Lower(summary_text)}})

\* lines 404-424
detect_case_status(summary_text, metadata) ==
    The({IF Rule1(t) THEN "Closed"
         ELSE IF Rule2(metadata) THEN "Ongoing"
         ELSE IF Rule3(t) THEN "Closed"
         ELSE "Ongoing" :
         t \in {Lower(summary_text)}})

\* line 487 without the test of case_status
TipsAlways(status) == TRUE

\* line 487: generate_case_tips is called only for an ongoing case
TipsWanted(status) == status = "Ongoing"

(***************************************************************************)
(* State.                                                                  *)
(*   pc               position of the request handler / of the function    *)
(*                    being verified                                       *)
(*   clock, ticks     the wall-clock date and how often it has advanced    *)
(*   padYear          whether the C library's strftime pads %Y to 4 digits *)
(*   request          the Authorization header and the uploaded files      *)
(*   response         HTTP status of the finished request, 0 before        *)
(*   idx              index of the file the loop of line 514 is at         *)
(*   tmp, temp_path   the temporary files that exist; temp_path (0: None)  *)
(*   store            the documents written to the "summaries" collection  *)
(*   summaries        the response list                                    *)
(*   raised           the status of the exception that propagates, 0: none *)
(*   text .. tips     locals of generate_structured_summary                *)
(*   tipsCalled       generate_case_tips was called for this document      *)
(*   samples          the readings of datetime.now() made so far           *)
(*   clean            the result of _normalize_text                        *)
(***************************************************************************)
VARIABLES pc, clock, ticks, padYear, request, response, idx, tmp, temp_path,
          store, summaries, raised, text, structured_text, dates_info,
          sections, all_dates, timeline, metadata, case_status, tips,
          tipsCalled, samples, clean

vars ==
    <<pc, clock, ticks, padYear, request, response, idx, tmp, temp_path,
      store, summaries, raised, text, structured_text, dates_info, sections,
      all_dates, timeline, metadata, case_status, tips, tipsCalled, samples,
      clean>>

reqVars == <<request, response, idx, tmp, temp_path, store, summaries, raised>>

docVars ==
    <<text, structured_text, dates_info, sections, all_dates, timeline,
      metadata, case_status, tips, tipsCalled>>

NoDates ==
    [all_unique_sorted |-> <<>>, past |-> [count |-> 0, list |-> <<>>],
     upcoming |-> [count |-> 0, list |-> <<>>], total_unique |-> 0]

NoSections == [list |-> <<>>, count |-> 0]

\* the Authorization header: absent (None), or a scheme prefix and the rest
NoHeader == [present |-> FALSE, scheme |-> "", token |-> ""]

Header(scheme, token) == [present |-> TRUE, scheme |-> scheme, token |-> token]

NoRequest == [authorization |-> NoHeader, files |-> <<>>]

\* the locals of generate_structured_summary before it runs
FreshDoc ==
    /\ structured_text = <<>>
    /\ dates_info = NoDates
    /\ sections = NoSections
    /\ all_dates = <<>>
    /\ timeline = <<>>
    /\ metadata = <<>>
    /\ case_status = ""
    /\ tips = <<>>
    /\ tipsCalled = FALSE

\* no request in flight
NoUpload ==
    /\ request = NoRequest
    /\ response = 0
    /\ idx = 0
    /\ tmp = {}
    /\ temp_path = 0
    /\ store = <<>>
    /\ summaries = <<>>
    /\ raised = 0

(***************************************************************************)
(* The steps of generate_structured_summary (lines 467-495).               *)
(***************************************************************************)
\* line 472: dates_info = extract_and_classify_dates(text); the clock is read
\* at line 255
ExtractDates ==
    /\ pc = "dates"
    /\ dates_info' = extract_and_classify_dates(text, clock, padYear)
    /\ samples' = samples \cup {[doc |-> idx, at |-> "dates", ref |-> clock]}
    /\ pc' = "sections"
    /\ UNCHANGED <<clock, ticks, padYear, reqVars, text, structured_text, sections,
                   all_dates, timeline, metadata, case_status, tips, tipsCalled, clean>>

\* line 473
ExtractSections ==
    /\ pc = "sections"
    /\ sections' = extract_sections_invoked(text)
    /\ pc' = "timeline_dates"
    /\ UNCHANGED <<clock, ticks, padYear, reqVars, text, structured_text, dates_info,
                   all_dates, timeline, metadata, case_status, tips, tipsCalled,
                   samples, clean>>

\* line 474, first half (lines 351-355): the timeline extracts the dates again
TimelineDates ==
    /\ pc = "timeline_dates"
    /\ clean' = _normalize_text(text)
    /\ all_dates' = extract_and_classify_dates(clean', clock, padYear).all_unique_sorted
    /\ samples' = samples \cup {[doc |-> idx, at |-> "timeline_dates", ref |-> clock]}
    /\ pc' = "timeline_events"
    /\ UNCHANGED <<clock, ticks, padYear, reqVars, text, structured_text, dates_info,
                   sections, timeline, metadata, case_status, tips, tipsCalled>>

\* line 474, second half (lines 358-399): now = datetime.now().date()
TimelineBuild ==
    /\ pc = "timeline_events"
    /\ timeline' = TimelineEvents(clean, all_dates, clock)
    /\ samples' = samples \cup {[doc |-> idx, at |-> "timeline_now", ref |-> clock]}
    /\ pc' = "metadata"
    /\ UNCHANGED <<clock, ticks, padYear, reqVars, text, structured_text, dates_info,
                   sections, all_dates, metadata, case_status, tips, tipsCalled, clean>>

\* lines 476-480
BuildMetadata ==
    /\ pc = "metadata"
    /\ metadata' = [dates |-> dates_info,
                    sections |-> [count |-> sections.count, list |-> sections.list],
                    timeline |-> timeline]
    /\ pc' = "status"
    /\ UNCHANGED <<clock, ticks, padYear, reqVars, text, structured_text, dates_info,
                   sections, all_dates, timeline, case_status, tips, tipsCalled,
                   samples, clean>>

\* line 483
DetectStatus ==
    /\ pc = "status"
    /\ case_status' = detect_case_status(structured_text, metadata)
    /\ pc' = "tips"
    /\ UNCHANGED <<clock, ticks, padYear, reqVars, text, structured_text, dates_info,
                   sections, all_dates, timeline, metadata, tips, tipsCalled,
                   samples, clean>>

\* _normalize_text applied to text
NormalizeText ==
    /\ pc = "normalize"
    /\ clean' = _normalize_text(text)
    /\ pc' = "normalized"
    /\ UNCHANGED <<clock, ticks, padYear, reqVars, docVars, samples>>

(***************************************************************************)
(* The request handler upload_and_summarize (lines 500-542) and what it    *)
(* calls.                                                                  *)
(***************************************************************************)
\* the tokens auth.verify_id_token accepts
ValidTokens == {"good"}

NoUser == ""

\* verify_firebase_token (lines 66-70): the uid of the decoded token, NoUser
\* (None) when verification raises
verify_firebase_token(id_token) == IF id_token \in ValidTokens THEN "uid" ELSE NoUser

\* line 507 testing only that a header is there
BadHeaderMissingOnly(a) == ~a.present \/ (a.scheme = "" /\ a.token = "")

\* line 507: not authorization or not authorization.startswith("Bearer ")
BadHeader(a) == ~a.present \/ (a.scheme = "" /\ a.token = "") \/ a.scheme # "Bearer "

\* an uploaded file: whether fitz can open it, and the text of its pages
File(readable, pages) == [readable |-> readable, pages |-> pages]

\* extract_text_from_pdf (lines 75-82): the status it raises (0: none) and the
\* text it returns
extract_text_from_pdf(f) ==
    IF ~f.readable THEN [raises |-> 500, text |-> <<>>]
    ELSE IF f.pages = <<>> THEN [raises |-> 400, text |-> <<>>]
    ELSE [raises |-> 0, text |-> Strip(f.pages)]

\* line 130: response.text or "Summary generation failed."
SummaryFailed == <<W("Summary"), SP, W("generation"), SP, W("failed"), DOT>>

\* lines 454-461 for a reply of non-blank lines: tips[:5], or the one line of
\* the except branch
generate_case_tips(reply) ==
    IF reply.raises THEN <<"Failed to generate tips">>
    ELSE SubSeq(reply.lines, 1, Min(Len(reply.lines), 5))

\* structured_output as the handler stores and returns it (lines 490-495,
\* 524-538)
Record(i) ==
    [user_id |-> verify_firebase_token(request.authorization.token),
     filename |-> i,
     summary |-> structured_text,
     case_status |-> case_status,
     recommendations |-> tips,
     metadata |-> metadata]

\* the requests, files and replies of the model
Headers ==
    {NoHeader, Header("", ""), Header("Basic ", "good"), Header("Bearer ", "good"),
     Header("Bearer ", "expired"), Header("Bearer ", ""), Header("bearer ", "good")}

\* a document with a date and a citation, one of white space only, one
\* without text and one fitz cannot open
DatedPages ==
    <<SP, W("hearing"), SP, N(5, 1), SP, W("February"), SP, N(2026, 4), SP,
      W("Section"), SP, N(420, 3), SP, W("IPC"), NL>>

Files ==
    {File(TRUE, DatedPages), File(TRUE, <<SP, NL>>), File(TRUE, <<>>),
     File(FALSE, <<>>)}

GeminiReplies ==
    {<<W("hearing")>>, <<W("Judgment"), SP, W("delivered")>>, <<W("Dismissed")>>, <<>>}

TipReplies ==
    {[raises |-> TRUE, lines |-> <<>>], [raises |-> FALSE, lines |-> <<>>],
     [raises |-> FALSE, lines |-> <<"a", "b", "c", "d", "e", "f">>]}

\* lines 507-508
Authorize ==
    /\ pc = "auth"
    /\ IF BadHeader(request.authorization)
       THEN response' = 401 /\ pc' = "done"
       ELSE response' = response /\ pc' = "verify"
    /\ UNCHANGED <<clock, ticks, padYear, request, idx, tmp, temp_path, store,
                   summaries, raised, docVars, samples, clean>>

\* lines 509-513
VerifyToken ==
    /\ pc = "verify"
    /\ IF verify_firebase_token(request.authorization.token) = NoUser
       THEN response' = 403 /\ pc' = "done"
       ELSE response' = response /\ pc' = "loop"
    /\ summaries' = <<>>
    /\ UNCHANGED <<clock, ticks, padYear, request, idx, tmp, temp_path, store,
                   raised, docVars, samples, clean>>

\* lines 514-515: the next file of the batch
NextFile ==
    /\ pc = "loop"
    /\ idx < Len(request.files)
    /\ idx' = idx + 1
    /\ temp_path' = 0
    /\ pc' = "tmp_create"
    /\ UNCHANGED <<clock, ticks, padYear, request, response, tmp, store, summaries,
                   raised, docVars, samples, clean>>

\* line 542: the batch is done
Respond ==
    /\ pc = "loop"
    /\ idx = Len(request.files)
    /\ response' = 200
    /\ pc' = "done"
    /\ UNCHANGED <<clock, ticks, padYear, request, idx, tmp, temp_path, store,
                   summaries, raised, docVars, samples, clean>>

\* line 517: NamedTemporaryFile(delete=False) creates the file
CreateTemp ==
    /\ pc = "tmp_create"
    /\ tmp' = tmp \cup {idx}
    /\ pc' = "tmp_write"
    /\ UNCHANGED <<clock, ticks, padYear, request, response, idx, temp_path, store,
                   summaries, raised, docVars, samples, clean>>

\* lines 518-519: the upload is copied and temp_path set
WriteTemp ==
    /\ pc = "tmp_write"
    /\ temp_path' = idx
    /\ pc' = "pdf"
    /\ UNCHANGED <<clock, ticks, padYear, request, response, idx, tmp, store,
                   summaries, raised, docVars, samples, clean>>

\* line 518: file.read() or temp.write() raises, temp_path is still None
WriteTempFails ==
    /\ pc = "tmp_write"
    /\ raised' = 500
    /\ pc' = "finally"
    /\ UNCHANGED <<clock, ticks, padYear, request, response, idx, tmp, temp_path,
                   store, summaries, docVars, samples, clean>>

\* lines 520-522
ExtractText ==
    /\ pc = "pdf"
    /\ \E r \in {extract_text_from_pdf(request.files[idx])} :
          /\ raised' = r.raises
          /\ text' = r.text
          /\ pc' = IF r.raises # 0 \/ r.text = <<>> THEN "finally" ELSE "summarize"
    /\ UNCHANGED <<clock, ticks, padYear, request, response, idx, tmp, temp_path,
                   store, summaries, structured_text, dates_info, sections, all_dates,
                   timeline, metadata, case_status, tips, tipsCalled, samples, clean>>

\* lines 468-469 with lines 129-131: the model replies
Summarize ==
    /\ pc = "summarize"
    /\ \E reply \in GeminiReplies :
          structured_text' = IF reply = <<>> THEN SummaryFailed ELSE reply
    /\ pc' = "dates"
    /\ UNCHANGED <<clock, ticks, padYear, reqVars, text, dates_info, sections,
                   all_dates, timeline, metadata, case_status, tips, tipsCalled,
                   samples, clean>>

\* lines 133-134: the model call raises
SummarizeFails ==
    /\ pc = "summarize"
    /\ raised' = 500
    /\ pc' = "finally"
    /\ UNCHANGED <<clock, ticks, padYear, request, response, idx, tmp, temp_path,
                   store, summaries, docVars, samples, clean>>

\* lines 486-488 for an ongoing case
TipsOngoing ==
    /\ pc = "tips"
    /\ TipsWanted(case_status)
    /\ \E reply \in TipReplies : tips' = generate_case_tips(reply)
    /\ tipsCalled' = TRUE
    /\ pc' = "store"
    /\ UNCHANGED <<clock, ticks, padYear, reqVars, text, structured_text, dates_info,
                   sections, all_dates, timeline, metadata, case_status, samples, clean>>

\* lines 486-487 otherwise
TipsSkipped ==
    /\ pc = "tips"
    /\ ~TipsWanted(case_status)
    /\ tips' = <<>>
    /\ pc' = "store"
    /\ UNCHANGED <<clock, ticks, padYear, reqVars, text, structured_text, dates_info,
                   sections, all_dates, timeline, metadata, case_status, tipsCalled,
                   samples, clean>>

\* lines 524-534
StoreRecord ==
    /\ pc = "store"
    /\ store' = Append(store, Record(idx))
    /\ pc' = "append"
    /\ UNCHANGED <<clock, ticks, padYear, request, response, idx, tmp, temp_path,
                   summaries, raised, docVars, samples, clean>>

\* line 524: the write to the store raises
StoreFails ==
    /\ pc = "store"
    /\ raised' = 500
    /\ pc' = "finally"
    /\ UNCHANGED <<clock, ticks, padYear, request, response, idx, tmp, temp_path,
                   store, summaries, docVars, samples, clean>>

\* lines 535-538
AppendSummary ==
    /\ pc = "append"
    /\ summaries' = Append(summaries, Record(idx))
    /\ pc' = "finally"
    /\ UNCHANGED <<clock, ticks, padYear, request, response, idx, tmp, temp_path,
                   store, raised, docVars, samples, clean>>

\* Finally taking the records of the batch back out of the store when an
\* exception propagates
FinallyRollback ==
    /\ pc = "finally"
    /\ tmp' = IF temp_path # 0 /\ temp_path \in tmp THEN tmp \ {temp_path} ELSE tmp
    /\ IF raised # 0
       THEN response' = raised /\ pc' = "done" /\ store' = <<>>
       ELSE response' = response /\ pc' = "loop" /\ store' = store
    /\ text' = <<>>
    /\ clean' = <<>>
    /\ structured_text' = <<>>
    /\ dates_info' = NoDates
    /\ sections' = NoSections
    /\ all_dates' = <<>>
    /\ timeline' = <<>>
    /\ metadata' = <<>>
    /\ case_status' = ""
    /\ tips' = <<>>
    /\ tipsCalled' = FALSE
    /\ UNCHANGED <<clock, ticks, padYear, request, idx, temp_path, summaries, raised,
                   samples>>

\* lines 539-541, then the next iteration or the propagating exception; the
\* locals of the iteration are gone
Finally ==
    /\ pc = "finally"
    /\ tmp' = IF temp_path # 0 /\ temp_path \in tmp THEN tmp \ {temp_path} ELSE tmp
    /\ IF raised # 0
       THEN response' = raised /\ pc' = "done"
       ELSE response' = response /\ pc' = "loop"
    /\ text' = <<>>
    /\ clean' = <<>>
    /\ structured_text' = <<>>
    /\ dates_info' = NoDates
    /\ sections' = NoSections
    /\ all_dates' = <<>>
    /\ timeline' = <<>>
    /\ metadata' = <<>>
    /\ case_status' = ""
    /\ tips' = <<>>
    /\ tipsCalled' = FALSE
    /\ UNCHANGED <<clock, ticks, padYear, request, idx, temp_path, store, summaries,
                   raised, samples>>

\* midnight passes while the request is served
Tick ==
    /\ pc # "done"
    /\ ticks < MaxTicks
    /\ ticks' = ticks + 1
    /\ clock' = NextDay(clock)
    /\ UNCHANGED <<pc, padYear, reqVars, docVars, samples, clean>>

(***************************************************************************)
(* Inputs of the functions verified on their own.                         *)
(***************************************************************************)
SeqsUpTo(S, n) == UNION {[1..k -> S] : k \in 0..n}

\* the texts made of at most n of the fragments F
TextsOf(F, n) == {Concat(fs) : fs \in SeqsUpTo(F, n)}

Clocks == {Date(2026, 2, 4), Date(2026, 2, 5)}

NormAlphabet == {SP, TAB, NL, FF, NBSP, EN, EM, FIG, HY, W("x")}

BlankAlphabet == {SP, TAB, NL, FF, NBSP}

FebRange == <<W("February"), SP, N(5, 1), HY, N(12, 2), COMMA, SP, N(2026, 4)>>

\* date-shaped pieces of text
DateCores ==
    {FebRange,
     <<W("Feb"), SP, N(28, 2), EN, N(30, 2), COMMA, N(2026, 4)>>,
     <<W("Sept"), SP, N(5, 1), SP, HY, SP, N(12, 2), COMMA, SP, N(2026, 4)>>,
     <<N(5, 1), SP, W("February"), SP, N(2026, 4)>>,
     <<W("FEBRUARY"), SP, N(6, 1), COMMA, SP, N(2026, 4)>>,
     <<W("feb"), NBSP, N(2026, 4)>>,
     <<N(2026, 4), HY, N(2, 2), HY, N(5, 2)>>,
     <<N(4, 2), SLASH, N(2, 2), SLASH, N(2026, 4)>>,
     <<N(2, 1), DOT, N(13, 2), DOT, N(2026, 4)>>,
     <<N(12, 2), SLASH, N(5, 2), SLASH, N(25, 2)>>,
     <<N(31, 2), HY, N(2, 2), HY, N(2026, 4)>>,
     <<N(5, 1), SP, W("February"), SP, N(999, 4)>>,
     <<N(3, 1), TAB, W("March"), SP, N(1500, 4)>>}

\* the pieces followed by a blank, a word and a blank
DateFrags == {c \o <<SP>> : c \in DateCores} \cup {<<W("hearing")>>, <<SP>>}

\* citation-shaped pieces of text
SectionCores ==
    {<<W("Section"), SP, N(420, 3), SP, W("IPC")>>,
     <<W("section"), SP, N(420, 3), SP, W("ipc")>>,
     <<W("SECTION"), SP, N(420, 3)>>,
     <<W("u"), SLASH, W("s"), SP, N(138, 3), SLASH, N(420, 3), SP, W("NI"), SP, W("Act")>>,
     <<W("Sec"), DOT, SP, N(65, 2), W("A"), SP, W("of"), SP, W("the"), SP, W("IPC")>>,
     <<W("Evidence"), SP, W("Act"), SP, N(128, 3)>>,
     <<W("evidence"), SP, W("act"), SP, N(128, 3)>>,
     <<W("Penal"), SP, W("Code"), SP, N(312, 3), LP, W("b"), RP>>}

SectionFrags ==
    {c \o <<COMMA, SP>> : c \in SectionCores} \cup {<<W("hearing")>>, <<SP>>}

NarrFrags ==
    {<<W("Judgment")>>, <<W("judgments")>>, <<W("delivered")>>,
     <<W("Final"), SP, W("Order")>>, <<W("final"), NL, W("order")>>,
     <<W("issued")>>, <<W("Dismissed")>>, <<W("acquitted")>>,
     <<W("convicted")>>, <<W("sentenced")>>, <<W("hearing")>>, <<SP>>}

\* metadata with the given number of upcoming dates; only the count is read
MetaWith(n) ==
    [dates |-> [all_unique_sorted |-> <<>>, past |-> [count |-> 0, list |-> <<>>],
                upcoming |-> [count |-> n, list |-> <<>>], total_unique |-> n]]

Metas == {<<>>} \cup {MetaWith(n) : n \in 0..2}

\* what the variables a function does not use are left at
Idle ==
    /\ ticks = 0
    /\ samples = {}
    /\ clean = <<>>
    /\ NoUpload

(***************************************************************************)
(* SpecNorm: _normalize_text on every short string over the characters it  *)
(* treats specially.                                                       *)
(***************************************************************************)
InitNorm ==
    /\ pc = "normalize"
    /\ text \in SeqsUpTo(NormAlphabet, MaxLen)
    /\ clock = Date(2026, 2, 4)
    /\ padYear = FALSE
    /\ FreshDoc
    /\ Idle

NextNorm == NormalizeText

SpecNorm == InitNorm /\ [][NextNorm]_vars

(***************************************************************************)
(* SpecStatus: detect_case_status on every short narrative and metadata.   *)
(***************************************************************************)
InitStatus ==
    /\ pc = "status"
    /\ text = <<>>
    /\ structured_text \in TextsOf(NarrFrags, MaxNarr)
    /\ metadata \in Metas
    /\ clock = Date(2026, 2, 4)
    /\ padYear = FALSE
    /\ dates_info = NoDates
    /\ sections = NoSections
    /\ all_dates = <<>>
    /\ timeline = <<>>
    /\ case_status = ""
    /\ tips = <<>>
    /\ tipsCalled = FALSE
    /\ Idle

NextStatus == DetectStatus

SpecStatus == InitStatus /\ [][NextStatus]_vars

(***************************************************************************)
(* SpecDates, SpecSections, SpecBlank: the extraction steps of             *)
(* generate_structured_summary on texts with dates, with citations, and on *)
(* empty or white-space-only text, the clock standing still.               *)
(***************************************************************************)
InitCore(texts, narratives) ==
    /\ pc = "dates"
    /\ text \in texts
    /\ structured_text \in narratives
    /\ clock \in Clocks
    /\ padYear \in BOOLEAN
    /\ dates_info = NoDates
    /\ sections = NoSections
    /\ all_dates = <<>>
    /\ timeline = <<>>
    /\ metadata = <<>>
    /\ case_status = ""
    /\ tips = <<>>
    /\ tipsCalled = FALSE
    /\ Idle

NextCore ==
    \/ ExtractDates
    \/ ExtractSections
    \/ TimelineDates
    \/ TimelineBuild
    \/ BuildMetadata
    \/ DetectStatus

InitDates == InitCore(TextsOf(DateFrags, MaxFrags), {<<W("hearing")>>})

SpecDates == InitDates /\ [][NextCore]_vars

InitSections == InitCore(TextsOf(SectionFrags, MaxFrags), {<<W("hearing")>>})

SpecSections == InitSections /\ [][NextCore]_vars

InitBlank == InitCore(SeqsUpTo(BlankAlphabet, MaxLen), {<<>>})

SpecBlank == InitBlank /\ [][NextCore]_vars

(***************************************************************************)
(* Spec: one upload request from its arrival to its response, the clock    *)
(* running.  The dates of its documents have four-digit years, which       *)
(* strftime prints the same way with and without padding.                  *)
(***************************************************************************)
Init ==
    /\ pc = "auth"
    /\ request \in {[authorization |-> a, files |-> fs] :
                      a \in Headers, fs \in SeqsUpTo(Files, MaxFiles)}
    /\ clock = Date(2026, 2, 5)
    /\ ticks = 0
    /\ padYear = FALSE
    /\ response = 0
    /\ idx = 0
    /\ tmp = {}
    /\ temp_path = 0
    /\ store = <<>>
    /\ summaries = <<>>
    /\ raised = 0
    /\ text = <<>>
    /\ clean = <<>>
    /\ samples = {}
    /\ FreshDoc

Next ==
    \/ Authorize
    \/ VerifyToken
    \/ NextFile
    \/ Respond
    \/ CreateTemp
    \/ WriteTemp
    \/ WriteTempFails
    \/ ExtractText
    \/ Summarize
    \/ SummarizeFails
    \/ NextCore
    \/ TipsOngoing
    \/ TipsSkipped
    \/ StoreRecord
    \/ StoreFails
    \/ AppendSummary
    \/ Finally
    \/ Tick

Spec == Init /\ [][Next]_vars

(***************************************************************************)
(* Properties.                                                             *)
(***************************************************************************)
\* the calendar date a display string "DD Month YYYY" shows
DisplayDate(p) ==
    Date(p[5].v, CHOOSE m \in 1..12 : MonthFull[m] = p[3].s, p[1].v)

Hearing == <<W("hearing")>>

JudgmentDelivered == <<W("Judgment"), SP, W("delivered")>>

\* C1: detect_case_status applies its rules in order and the first that
\* matches decides: judgment/order language gives Closed whatever the number
\* of upcoming dates; otherwise an upcoming date gives Ongoing whatever the
\* outcome keywords; otherwise an outcome keyword gives Closed; otherwise
\* Ongoing.  The result is Ongoing or Closed.
C1_StatusPrecedence ==
    pc = "tips" =>
        LET t == Lower(structured_text)
        IN /\ case_status \in {"Ongoing", "Closed"}
           /\ Rule1(t) => case_status = "Closed"
           /\ (~Rule1(t) /\ UpcomingCount(metadata) > 0) => case_status = "Ongoing"
           /\ (~Rule1(t) /\ UpcomingCount(metadata) = 0 /\ Rule3(t)) => case_status = "Closed"
           /\ (~Rule1(t) /\ UpcomingCount(metadata) = 0 /\ ~Rule3(t)) => case_status = "Ongoing"

\* a narrative with "judgment" and "delivered" and two upcoming dates was
\* classified Closed
C1_Witness ==
    /\ pc = "tips"
    /\ structured_text = JudgmentDelivered
    /\ UpcomingCount(metadata) = 2
    /\ case_status = "Closed"

\* C2: in the result of extract_and_classify_dates every past date is before
\* the reference date, every upcoming date is on or after it, the two lists
\* are disjoint and together hold exactly the dates of all_unique_sorted, and
\* the two counts add up to total_unique.
C2_PastUpcomingPartition ==
    pc # "dates" =>
        LET P == Range(dates_info.past.list)
            U == Range(dates_info.upcoming.list)
            A == Range(dates_info.all_unique_sorted)
        IN /\ \A p \in P : DateLT(DisplayDate(p), clock)
           /\ \A u \in U : ~DateLT(DisplayDate(u), clock)
           /\ P \cap U = {}
           /\ P \cup U = A
           /\ dates_info.past.count = Len(dates_info.past.list)
           /\ dates_info.upcoming.count = Len(dates_info.upcoming.list)
           /\ Cardinality(P) = dates_info.past.count
           /\ Cardinality(U) = dates_info.upcoming.count
           /\ dates_info.past.count + dates_info.upcoming.count = dates_info.total_unique
           /\ dates_info.total_unique = Len(dates_info.all_unique_sorted)

\* a text with the reference date itself and an earlier date: the reference
\* date is upcoming, the earlier one past
C2_Witness ==
    /\ pc # "dates"
    /\ clock = Date(2026, 2, 5)
    /\ dates_info.upcoming.list = <<Strftime(Date(2026, 2, 5), TRUE)>>
    /\ dates_info.past.list = <<Strftime(Date(2026, 2, 4), TRUE)>>

\* C3: the date classification and the timeline of one document agree: as
\* many events as unique dates, an event Upcoming exactly when its date is in
\* the upcoming list and Completed exactly when it is in the past list.
C3_ListAndTimelineAgree ==
    pc \in {"metadata", "status", "tips", "store", "append"} =>
        /\ Len(timeline) = dates_info.total_unique
        /\ \A i \in 1..Len(timeline) :
              /\ timeline[i].status = "Upcoming"
                    <=> timeline[i].date \in Range(dates_info.upcoming.list)
              /\ timeline[i].status = "Completed"
                    <=> timeline[i].date \in Range(dates_info.past.list)

\* C4: within one batch every classification is made against the same
\* reference date: all readings of the clock give the same date.
C4_OneReferencePerBatch == \A s1 \in samples : \A s2 \in samples : s1.ref = s2.ref

\* the positions of found whose label equals no earlier label, case ignored
FirstSeen(found) ==
    {i \in 1..Len(found) : \A j \in 1..(i - 1) : Lower(found[j]) # Lower(found[i])}

\* the k-th smallest element of a set of numbers
Nth(P, k) == CHOOSE i \in P : Cardinality({j \in P : j < i}) = k - 1

Section420IPC == <<W("Section"), SP, N(420, 3), SP, W("IPC")>>

\* C5: no two labels returned by extract_sections_invoked are equal when case
\* is ignored; of the found labels that differ only in case the first found
\* is kept as it was written; the kept labels are in the order found, the
\* keyword-prefixed matches before the named-code matches; and the count is
\* the length of the list.
C5_CaseInsensitiveDedup ==
    pc \notin {"dates", "sections"} =>
        LET cl == _normalize_text(text)
            found == CollectA(cl, 1) \o CollectB(cl, 1)
            L == sections.list
            F == FirstSeen(found)
        IN /\ \A i \in 1..Len(L) : \A j \in 1..Len(L) :
                 i # j => Lower(L[i]) # Lower(L[j])
           /\ Len(L) = Cardinality(F)
           /\ \A k \in 1..Len(L) : L[k] = found[Nth(F, k)]
           /\ sections.count = Len(L)

\* "Section 420 IPC, section 420 ipc, " gave the one label "Section 420 IPC"
C5_Witness ==
    /\ pc = "tips"
    /\ text = Section420IPC \o <<COMMA, SP, W("section"), SP, N(420, 3), SP, W("ipc"),
                                 COMMA, SP>>
    /\ sections.list = <<Section420IPC>>

\* the month a word names to strptime (%B or %b), 0 when it names none
MonthNamed(a) ==
    IF \E m \in 1..12 : LowerWord(a.s) \in {MonthFullLower[m], MonthAbbrLower[m]}
    THEN CHOOSE m \in 1..12 : LowerWord(a.s) \in {MonthFullLower[m], MonthAbbrLower[m]}
    ELSE 0

\* the boundary days of a range match that are calendar dates, left first
Boundaries(m) ==
    SelectSeq(<<Date(m.yr.v, MonthNamed(m.mo), m.d1.v), Date(m.yr.v, MonthNamed(m.mo), m.d2.v)>>,
              LAMBDA b : ValidDate(b.y, b.m, b.d))

C7_NormalizeIdempotent ==
    pc = "normalized" =>
        /\ _normalize_text(clean) = clean
        /\ text = <<>> => clean = <<>>

\* a string with a non-breaking space, a blank and an en dash was normalised
C7_Witness ==
    /\ pc = "normalized"
    /\ text = <<W("x"), NBSP, SP, EN>>
    /\ clean = <<W("x"), SP, HY>>

\* C8: for empty or white-space-only text the date extractor gives no dates,
\* the citation extractor an empty list and count 0, the timeline no event,
\* and detect_case_status, on an empty narrative and that metadata, Ongoing.
C8_BlankTextEmptyResults ==
    /\ pc # "dates" =>
          /\ dates_info.total_unique = 0
          /\ dates_info.all_unique_sorted = <<>>
          /\ dates_info.past = [count |-> 0, list |-> <<>>]
          /\ dates_info.upcoming = [count |-> 0, list |-> <<>>]
    /\ pc \notin {"dates", "sections"} => sections = [list |-> <<>>, count |-> 0]
    /\ pc \in {"timeline_events", "metadata", "status", "tips"} => all_dates = <<>>
    /\ pc \in {"metadata", "status", "tips"} => timeline = <<>>
    /\ pc = "tips" => case_status = "Ongoing"

\* a text of a blank, a non-breaking space, a line break and a tab went
\* through all the extractors
C8_Witness ==
    /\ pc = "tips"
    /\ text = <<SP, NBSP, NL, TAB>>
    /\ metadata.dates.total_unique = 0
    /\ metadata.timeline = <<>>
    /\ case_status = "Ongoing"

\* C9: the tips generator is called only for an ongoing case: when
\* case_status is Closed it is not called and recommendations is empty, in
\* the locals of generate_structured_summary and in every record stored or
\* returned.
C9_TipsOnlyWhenOngoing ==
    /\ case_status = "Closed" => ~tipsCalled /\ tips = <<>>
    /\ tipsCalled => case_status = "Ongoing"
    /\ \A r \in Range(store) \cup Range(summaries) :
          r.case_status = "Closed" => r.recommendations = <<>>

\* a closed case passed the gate of line 487 and was stored with no tips
C9_Witness ==
    /\ pc = "append"
    /\ case_status = "Closed"
    /\ ~tipsCalled
    /\ store[Len(store)].case_status = "Closed"
    /\ store[Len(store)].recommendations = <<>>

\* the fragments given to _parse_one_date for the match m of the text cl
Fragments(cl, m) ==
    IF m.rng THEN {<<m.mo, SP, m.d1, SP, m.yr>>, <<m.mo, SP, m.d2, SP, m.yr>>}
    ELSE {ReplaceCh(StripOrdinals(SubSeq(cl, m.s, m.e)), COMMA, SP)}

\* the dates some format template reads from a fragment
Accepted(fr) ==
    {Strptime(CleanFragment(fr), fmts[j]) : j \in 1..Len(fmts)} \ {NoDate}

\* C10: _parse_one_date gives None for a fragment none of its formats
\* accepts; a match whose parse is None adds nothing to the result: every
\* entry of all_unique_sorted, past.list and upcoming.list shows a date that
\* a format read from a matched fragment, and total_unique counts no other
\* match.
C10_UnparsedDiscarded ==
    pc = "sections" =>
        LET cl == _normalize_text(text)
            ms == FindDates(cl, 1)
            frs == UNION {Fragments(cl, ms[k]) : k \in 1..Len(ms)}
            shown == UNION {{Strftime(d, padYear) : d \in Accepted(fr)} : fr \in frs}
        IN /\ \A fr \in frs : Accepted(fr) = {} => _parse_one_date(fr) = NoDate
           /\ \A k \in 1..Len(ms) :
                 (\A fr \in Fragments(cl, ms[k]) : Accepted(fr) = {})
                    => MatchDates(cl, ms[k]) = <<>>
           /\ Range(dates_info.all_unique_sorted) \subseteq shown
           /\ Range(dates_info.past.list) \subseteq shown
           /\ Range(dates_info.upcoming.list) \subseteq shown
           /\ dates_info.total_unique = Len(dates_info.all_unique_sorted)
           /\ dates_info.total_unique <= Cardinality({fr \in frs : Accepted(fr) # {}})

\* "12/05/25 5 February 2026 ": the first match parses under no format and
\* only the second is counted
C10_Witness ==
    /\ pc # "dates"
    /\ text = <<N(12, 2), SLASH, N(5, 2), SLASH, N(25, 2), SP,
                N(5, 1), SP, W("February"), SP, N(2026, 4), SP>>
    /\ Len(FindDates(_normalize_text(text), 1)) = 2
    /\ dates_info.total_unique = 1

\* C11: the timeline has one event per unique extracted date, in ascending
\* calendar order: its dates, in sequence, are all_unique_sorted of the date
\* extraction of the same text.
C11_TimelineInDateOrder ==
    pc \in {"metadata", "status", "tips"} =>
        [i \in 1..Len(timeline) |-> timeline[i].date] = dates_info.all_unique_sorted

\* the header starts with "Bearer " / what follows is a token that verifies
HasBearer == request.authorization.present /\ request.authorization.scheme = "Bearer "

TokenVerifies == request.authorization.token = "good"

\* nothing of the batch has been touched: no file begun, no temporary file,
\* no text read, no clock reading made for a document, nothing stored
Untouched ==
    /\ idx = 0
    /\ tmp = {}
    /\ text = <<>>
    /\ structured_text = <<>>
    /\ samples = {}
    /\ summaries = <<>>
    /\ store = <<>>

\* C12: without an Authorization header that starts with "Bearer " and
\* carries a token that verifies, no document is read, summarized or stored:
\* the request ends with 401 when the header is missing or malformed and with
\* 403 when the token does not verify, before the first file and with the
\* store unchanged.
C12_NoProcessingWithoutAuth ==
    /\ ~(HasBearer /\ TokenVerifies) =>
          /\ Untouched
          /\ pc \in {"auth", "verify", "done"}
    /\ (pc = "done" /\ ~HasBearer) => response = 401
    /\ (pc = "done" /\ HasBearer /\ ~TokenVerifies) => response = 403
    /\ (pc = "verify" \/ response = 403) => HasBearer
    /\ response \in {200, 400, 500} => HasBearer /\ TokenVerifies

\* a request of two files with an expired bearer token ended with 403
C12_Witness ==
    /\ pc = "done"
    /\ response = 403
    /\ request.authorization = Header("Bearer ", "expired")
    /\ Len(request.files) = 2
    /\ Untouched

\* the files of the request, among the first n, that can be opened and have
\* text other than white space, in their order
WithText(n) ==
    SelectSeq([j \in 1..n |-> j],
              LAMBDA j : request.files[j].readable /\ Strip(request.files[j].pages) # <<>>)

Filenames(records) == [i \in 1..Len(records) |-> records[i].filename]

\* C13: a document's record is in the store before its entry is in the
\* response list, so the store never holds fewer records of the batch than
\* the list has entries; and nothing is taken back: when document k raises,
\* the records of the documents before k that had text are still stored,
\* although the request fails.
C13_StoreBeforeResponseNoRollback ==
    /\ Len(store) >= Len(summaries)
    /\ Len(store) <= Len(summaries) + 1
    /\ summaries = SubSeq(store, 1, Len(summaries))
    /\ idx > 0 =>
          /\ SubSeq(Filenames(store), 1, Len(WithText(idx - 1))) = WithText(idx - 1)
          /\ Len(store) <= Len(WithText(idx - 1)) + 1
    /\ response \in {400, 500} => Filenames(store) = WithText(idx - 1)
    /\ pc \in {"append", "finally"} /\ raised = 0 /\ text # <<>> =>
          store[Len(store)].filename = idx
    /\ pc = "append" => Len(store) = Len(summaries) + 1

\* the second document of a batch raised and the request failed with 500,
\* the record of the first still stored
C13_Witness ==
    /\ pc = "done"
    /\ response = 500
    /\ idx = 2
    /\ Filenames(store) = <<1>>

\* C14: the temporary file of a document is gone when the document's
\* iteration has ended, on every path, so no temporary file of the batch
\* is left when the request is over.
C14_NoTempFileSurvives == pc \in {"loop", "done"} => tmp = {}

====
